---- MODULE Spec2Model ----
(***************************************************************************)
(* Model of climatecore.py: the Config Listener task (config_listener) and *)
(* the Alerting Engine loop (main), which share config.sensor_bounds and   *)
(* run as two asyncio tasks on one event loop.  A step of the model is the *)
(* code one task runs between two of its await points.                     *)
(***************************************************************************)
EXTENDS Integers, Sequences, FiniteSets, TLC

VARIABLES
    sensor_bounds,     \* config.sensor_bounds: sensor name -> SensorBounds
    lpc,               \* config_listener: "run" | "dead" (ended by an exception)
    cfg_msg,           \* config_listener: the message of its last fetch (<<>> before)
    cfg_received,      \* config messages the listener's fetch has returned
    cfg_acked,         \* config messages the listener has called msg.ack() on
                       \* (these three are kept under SpecListener only)
    cfg_loop,          \* config_listener: the entries of data.items() its for loop
                       \* has yet to reach, <<>> outside the loop (kept under
                       \* SpecUpserts only)
    epc,               \* main: "wait" | "fetch" | "eval" | "gather" | "crashed"
    error,             \* main: the exception that ended it ("none" while it runs)
    last_fetch,        \* main: how its last sub.fetch ended: "none" | "timeout" | "batch"
    msgs,              \* main: the batch of the current cycle
    idx,               \* main: position of the for loop in msgs (1-based)
    acks,              \* main: positions of msgs on which msg.ack() was called
    alert_tasks,       \* main: the publish coroutines created in the cycle
    last_sensor_data,  \* main: <<>> for (None, None), else <<sensor_data, bounds>>
    state_file,        \* args.current_state_file: "absent" or the stored state
    published,         \* events sent by nc.publish in the last step of main
    unrecovered,       \* sensors with a published violation event that no published
                       \* back-to-normal event of theirs has followed (kept under
                       \* SpecHistory only)
    stream_pc,         \* Stream: "new" | "call" | "loop" | "returned" | "raised"
    stream_model,      \* Stream.model: "unset" before __init__, then "none" | "model"
    stream_msgs,       \* get_messages: msgs, the fetched batch
    stream_idx,        \* get_messages: position of the for loop in msgs (1-based)
    response,          \* get_messages: response
    stream_acks,       \* get_messages: acks, as the positions whose ack task exists
    stream_acked,      \* positions of msgs whose msg.ack() has completed
    stream_error       \* the exception get_messages raised ("none" if it did not)
                       \* (the stream_ variables and response are kept under
                       \* SpecStream only)

vars == <<sensor_bounds, lpc, cfg_msg, cfg_received, cfg_acked, cfg_loop, epc, error,
          last_fetch, msgs, idx, acks, alert_tasks, last_sensor_data, state_file,
          published, unrecovered, stream_pc, stream_model, stream_msgs, stream_idx,
          response, stream_acks, stream_acked, stream_error>>

streamVars == <<stream_pc, stream_model, stream_msgs, stream_idx, response,
                stream_acks, stream_acked, stream_error>>
listenerVars == <<lpc, cfg_msg, cfg_received, cfg_acked, cfg_loop>>
engineVars == <<epc, error, last_fetch, msgs, idx, acks, alert_tasks,
                last_sensor_data, state_file, published, unrecovered>>

----------------------------------------------------------------------------
(* Bounds of the model *)

MaxBatch == 2      \* messages per fetched batch (the code asks for up to 10)
MaxConfig == 2     \* config messages the listener receives under SpecListener
MaxNmsgs == 2      \* nmsgs of Stream.get_messages (its callers ask for 50)

(* Input domains *)

Sensors == {"A", "B"}
Values == {0, 1, 2}
BoundsChoices == {<<1, 2>>, <<2, 1>>}   \* <<min, max>>; the second has min > max

----------------------------------------------------------------------------
(* models.py and the payloads on the wire *)

\* SensorBounds(sensor, min, max); min <= max is not validated
SensorBounds(s, lo, hi) == [sensor |-> s, min |-> lo, max |-> hi]

\* SensorData, reduced to the fields the engine reads (name, value)
SensorData(n, v) == [name |-> n, value |-> v]

\* A message of the sensor stream, by what json.loads and SensorData(**data)
\* make of its payload:
\*   "malformed"  json.loads raises JSONDecodeError
\*   "nonobject"  valid JSON that is no object: SensorData(**data) raises TypeError
\*   "invalid"    a JSON object that fails validation: pydantic.ValidationError
\*   "reading"    a valid reading
Messages ==
    {[kind |-> k, name |-> "-", value |-> 0] : k \in {"malformed", "nonobject", "invalid"}}
    \cup {[kind |-> "reading", name |-> n, value |-> v] : n \in Sensors, v \in Values}

Batches == UNION {[1..n -> Messages] : n \in 1..MaxBatch}

\* An entry of a config message: valid = FALSE when SensorBounds(**bounds)
\* raises pydantic.ValidationError
ConfigEntries ==
    {[sensor |-> s, valid |-> TRUE, min |-> b[1], max |-> b[2]] :
        s \in Sensors, b \in BoundsChoices}
    \cup {[sensor |-> s, valid |-> FALSE, min |-> 0, max |-> 0] : s \in Sensors}

\* The keys of a JSON object are distinct
DistinctSensors(es) ==
    \A i, j \in DOMAIN es : i # j => es[i].sensor # es[j].sensor

ConfigPayloads ==
    {[kind |-> "malformed", entries |-> <<>>]}
    \cup {[kind |-> "object", entries |-> es] :
            es \in {e \in UNION {[1..n -> ConfigEntries] : n \in 1..Cardinality(Sensors)} :
                        DistinctSensors(e)}}

\* A message of a stream read through Stream, by what msg.data.decode() and
\* model_validate_json make of its payload (data tells the payloads apart):
\*   "undecodable"  bytes that are not UTF-8: decode raises UnicodeDecodeError
\*   "invalid"      model_validate_json raises pydantic.ValidationError
\*   "valid"        a payload the model accepts
StreamData == {"x", "y"}
StreamMessages ==
    {[kind |-> k, data |-> d] : k \in {"undecodable", "invalid", "valid"}, d \in StreamData}

StreamBatches == UNION {[1..n -> StreamMessages] : n \in 0..MaxNmsgs}

OutOfBoundsMessage == "Sensor data out of bounds"
BackToNormalMessage == "System back to normal"
AlertsPrefix == "alerts.climatecore"

\* Mutant: the subject is the prefix alone, without the sensor's name
AlertSubject_PrefixOnly(name) == <<AlertsPrefix>>

\* f"{config.nats_alerts_subject_prefix}.{name}"
AlertSubject(name) == <<AlertsPrefix, name>>

\* Alert, with the subject it is published on
Alert(msg, sd, b) ==
    [message |-> msg, sensor_data |-> sd, sensor_bounds |-> b,
     subject |-> AlertSubject(sd.name)]

----------------------------------------------------------------------------
Init ==
    /\ sensor_bounds = <<>>
    /\ lpc = "run"
    /\ cfg_msg = <<>>
    /\ cfg_received = 0
    /\ cfg_acked = 0
    /\ cfg_loop = <<>>
    /\ epc = "wait"
    /\ error = "none"
    /\ last_fetch = "none"
    /\ msgs = <<>>
    /\ idx = 1
    /\ acks = <<>>
    /\ alert_tasks = <<>>
    /\ last_sensor_data = <<>>
    /\ state_file \in {"absent", "NOT_ALERTING", "ALERTING"}
    /\ published = <<>>
    /\ unrecovered = {}
    /\ stream_pc = "new"
    /\ stream_model = "unset"
    /\ stream_msgs = <<>>
    /\ stream_idx = 1
    /\ response = <<>>
    /\ stream_acks = <<>>
    /\ stream_acked = <<>>
    /\ stream_error = "none"

----------------------------------------------------------------------------
(* config_listener *)

\* Mutant: the table is replaced by the one entry instead of updated
Upsert_Replace(table, s, b) == [x \in {s} |-> b]

\* config.sensor_bounds[sensor] = sensor_bounds
Upsert(table, s, b) ==
    [x \in (DOMAIN table) \cup {s} |-> IF x = s THEN b ELSE table[x]]

\* The for loop over data.items(): a ValidationError leaves the loop
RECURSIVE ApplyEntries(_, _, _)
ApplyEntries(table, es, k) ==
    IF k > Len(es) THEN table
    ELSE IF ~es[k].valid THEN table
    ELSE ApplyEntries(Upsert(table, es[k].sensor,
                             SensorBounds(es[k].sensor, es[k].min, es[k].max)),
                      es, k + 1)

\* The body of the listener's loop for a fetched message m, up to its
\* await msg.ack(); nothing in it awaits before the ack
ConfigHandle(m) ==
    IF m.kind = "malformed"
    THEN \* json.loads raises; only ValidationError and TimeoutError are caught
         /\ lpc' = "dead"
         /\ UNCHANGED sensor_bounds
    ELSE /\ sensor_bounds' = ApplyEntries(sensor_bounds, m.entries, 1)
         /\ lpc' = "run"

\* Whether the body reaches its await msg.ack() for m
ConfigAcked(m) == m.kind # "malformed"

\* One iteration of the listener's loop whose fetch returns a message
ConfigMessage ==
    /\ lpc = "run"
    /\ \E m \in ConfigPayloads : ConfigHandle(m)
    /\ UNCHANGED <<cfg_msg, cfg_received, cfg_acked, cfg_loop>>
    /\ UNCHANGED <<engineVars, streamVars>>

\* The same iteration, observed: the message is kept in cfg_msg and the
\* messages received and acknowledged are counted
ConfigMessageObserved ==
    /\ lpc = "run"
    /\ cfg_received < MaxConfig
    /\ \E m \in ConfigPayloads :
        /\ ConfigHandle(m)
        /\ cfg_msg' = m
        /\ cfg_received' = cfg_received + 1
        /\ cfg_acked' = IF ConfigAcked(m) THEN cfg_acked + 1 ELSE cfg_acked
    /\ UNCHANGED <<cfg_loop, engineVars, streamVars>>

\* One iteration whose fetch times out
ConfigTimeout ==
    /\ lpc = "run"
    /\ UNCHANGED vars

\* One iteration of the for loop over data.items(), es being the entries from
\* the current one on: a ValidationError leaves the loop
ConfigLoopStep(es) ==
    IF ~es[1].valid
    THEN /\ cfg_loop' = <<>>
         /\ UNCHANGED sensor_bounds
    ELSE /\ sensor_bounds' = Upsert(sensor_bounds, es[1].sensor,
                                    SensorBounds(es[1].sensor, es[1].min, es[1].max))
         /\ cfg_loop' = Tail(es)

\* The listener's fetch returns a message: json.loads and the first iteration
\* of the for loop
ConfigLoopFirst ==
    /\ lpc = "run"
    /\ cfg_loop = <<>>
    /\ \E m \in ConfigPayloads :
        IF m.kind = "malformed"
        THEN /\ lpc' = "dead"
             /\ UNCHANGED <<sensor_bounds, cfg_loop>>
        ELSE /\ ConfigLoopStep(m.entries)
             /\ UNCHANGED lpc
    /\ UNCHANGED <<cfg_msg, cfg_received, cfg_acked, engineVars, streamVars>>

\* A later iteration of the for loop
ConfigLoopNext ==
    /\ cfg_loop # <<>>
    /\ ConfigLoopStep(cfg_loop)
    /\ UNCHANGED <<lpc, cfg_msg, cfg_received, cfg_acked, engineVars, streamVars>>

\* Mutant: the listener also gives up the event loop between two iterations
\* of its for loop
ListenerAwaits_InLoop(loop) == TRUE

\* Whether the listener is at one of its awaits, sub.fetch and msg.ack, where
\* the event loop can run main: the for loop over data.items() has none
ListenerAwaits(loop) == loop = <<>>

----------------------------------------------------------------------------
(* main *)

\* Mutant: main does not wait for the configuration
EngineWait_NoWait ==
    /\ epc = "wait"
    /\ epc' = "fetch"
    /\ UNCHANGED <<sensor_bounds, listenerVars, streamVars, error, last_fetch, msgs, idx, acks,
                   alert_tasks, last_sensor_data, state_file, published, unrecovered>>

\* while len(config.sensor_bounds) == 0: await asyncio.sleep(0.1)
EngineWait ==
    /\ epc = "wait"
    /\ IF DOMAIN sensor_bounds = {} THEN UNCHANGED epc ELSE epc' = "fetch"
    /\ UNCHANGED <<sensor_bounds, listenerVars, streamVars, error, last_fetch, msgs, idx, acks,
                   alert_tasks, last_sensor_data, state_file, published, unrecovered>>

\* Mutant: a fetch that times out is handled as a cycle without alerts, which
\* stores NOT_ALERTING
EngineIdle_StoresState ==
    /\ epc = "fetch"
    /\ last_fetch' = "timeout"
    /\ published' = <<>>
    /\ state_file' = "NOT_ALERTING"
    /\ UNCHANGED <<sensor_bounds, listenerVars, streamVars, epc, error, msgs, idx, acks,
                   alert_tasks, last_sensor_data, unrecovered>>

\* sub.fetch raises TimeoutError: the cycle is skipped
EngineIdle ==
    /\ epc = "fetch"
    /\ last_fetch' = "timeout"
    /\ published' = <<>>
    /\ UNCHANGED <<sensor_bounds, listenerVars, streamVars, epc, error, msgs, idx, acks,
                   alert_tasks, last_sensor_data, state_file, unrecovered>>

\* sub.fetch returns a batch
EngineFetch ==
    /\ epc = "fetch"
    /\ last_fetch' = "batch"
    /\ \E b \in Batches : msgs' = b
    /\ idx' = 1
    /\ acks' = <<>>
    /\ alert_tasks' = <<>>
    /\ last_sensor_data' = <<>>
    /\ published' = <<>>
    /\ epc' = "eval"
    /\ UNCHANGED <<sensor_bounds, listenerVars, streamVars, error, state_file, unrecovered>>

\* Mutant: only the upper bound is compared
OutOfBounds_UpperOnly(v, b) == v > b.max

\* Mutant: the lower bound is compared with <=
OutOfBounds_Inclusive(v, b) == v <= b.min \/ v > b.max

\* sensor_data.value < bounds.min or sensor_data.value > bounds.max
OutOfBounds(v, b) == v < b.min \/ v > b.max

\* The exception the body of the for loop raises for m and does not catch
Raises(m) ==
    CASE m.kind = "malformed" -> "JSONDecodeError"   \* json.loads, outside the try
      [] m.kind = "nonobject" -> "TypeError"         \* SensorData(**data), not caught
      [] OTHER -> "none"

\* Mutant: the continue of an ignored reading skips the acknowledgement
ReachesAck_SkipIgnored(m, table) ==
    /\ m.kind # "malformed"
    /\ ~(m.kind = "reading" /\ m.name \notin DOMAIN table)

\* Whether the body reaches the finally clause, await msg.ack(), for m:
\* every path that enters the try does, the continue of an ignored reading
\* included
ReachesAck(m, table) == m.kind # "malformed"

\* The body of the for loop for one message, up to its await msg.ack()
EngineEval ==
    /\ epc = "eval"
    /\ idx <= Len(msgs)
    /\ LET m == msgs[idx]
           acked == ReachesAck(m, sensor_bounds)
       IN /\ acks' = IF acked THEN Append(acks, idx) ELSE acks
          /\ IF m.kind = "reading" /\ m.name \in DOMAIN sensor_bounds
             THEN LET sd == SensorData(m.name, m.value)
                      bounds == sensor_bounds[m.name]
                  IN /\ last_sensor_data' = <<sd, bounds>>
                     /\ alert_tasks' =
                          IF OutOfBounds(sd.value, bounds)
                          THEN Append(alert_tasks, Alert(OutOfBoundsMessage, sd, bounds))
                          ELSE alert_tasks
             ELSE UNCHANGED <<alert_tasks, last_sensor_data>>
          /\ IF Raises(m) # "none"
             THEN /\ epc' = "crashed"
                  /\ error' = Raises(m)
                  /\ UNCHANGED idx
             ELSE \/ /\ idx' = idx + 1
                     /\ UNCHANGED <<epc, error>>
                  \/ \* msg.ack() raises inside finally
                     /\ acked
                     /\ epc' = "crashed"
                     /\ error' = "AckError"
                     /\ UNCHANGED idx
    /\ UNCHANGED <<sensor_bounds, listenerVars, streamVars, last_fetch, msgs, state_file, published,
                   unrecovered>>

\* State() when the file is missing: the default of State.state
DefaultState == "ALERTING"

\* Mutant: one alert alone does not make the new state ALERTING
NewState_MoreThanOne(tasks) == IF Len(tasks) > 1 THEN "ALERTING" ELSE "NOT_ALERTING"

\* new_state = State(state=States.ALERTING if len(alert_tasks) > 0 else ...)
NewState(tasks) == IF Len(tasks) > 0 THEN "ALERTING" ELSE "NOT_ALERTING"

\* Lines after the for loop: load the state, store the new one, add the
\* back-to-normal alert
EngineUpdateState ==
    /\ epc = "eval"
    /\ idx > Len(msgs)
    /\ LET current_state == IF state_file = "absent" THEN DefaultState ELSE state_file
           new_state == NewState(alert_tasks)
       IN /\ state_file' = new_state
          /\ alert_tasks' =
               IF /\ current_state = "ALERTING"
                  /\ new_state = "NOT_ALERTING"
                  /\ last_sensor_data # <<>>
               THEN Append(alert_tasks,
                           Alert(BackToNormalMessage, last_sensor_data[1], last_sensor_data[2]))
               ELSE alert_tasks
    /\ epc' = "gather"
    /\ UNCHANGED <<sensor_bounds, listenerVars, streamVars, error, last_fetch, msgs, idx, acks,
                   last_sensor_data, published, unrecovered>>

\* await asyncio.gather(*alert_tasks): the end of the cycle.  The locals of
\* the cycle are dead from here on (the next cycle assigns them before it
\* reads them), so the model resets them with the end of the cycle.
EngineGather ==
    /\ epc = "gather"
    /\ published' = alert_tasks
    /\ epc' = "fetch"
    /\ msgs' = <<>>
    /\ idx' = 1
    /\ acks' = <<>>
    /\ alert_tasks' = <<>>
    /\ last_sensor_data' = <<>>
    /\ UNCHANGED <<sensor_bounds, listenerVars, streamVars, error, last_fetch, state_file, unrecovered>>

\* The sensors left with an unrecovered violation once the events are sent,
\* in the order of alert_tasks
RECURSIVE Track(_, _)
Track(events, open) ==
    IF events = <<>> THEN open
    ELSE LET e == Head(events)
         IN Track(Tail(events),
                  IF e.message = OutOfBoundsMessage
                  THEN open \cup {e.sensor_data.name}
                  ELSE open \ {e.sensor_data.name})

\* EngineGather, which also records whose violations are left unrecovered
EngineGatherObserved ==
    /\ epc = "gather"
    /\ published' = alert_tasks
    /\ unrecovered' = Track(alert_tasks, unrecovered)
    /\ epc' = "fetch"
    /\ msgs' = <<>>
    /\ idx' = 1
    /\ acks' = <<>>
    /\ alert_tasks' = <<>>
    /\ last_sensor_data' = <<>>
    /\ UNCHANGED <<sensor_bounds, listenerVars, streamVars, error, last_fetch, state_file>>

----------------------------------------------------------------------------
(* Stream.get_messages (stream.py) *)

\* msg.data.decode()
Decode(m) == <<"str", m.data>>

\* self.model.model_validate_json(raw_data)
ModelValidateJson(raw) == <<"model", raw[2]>>

\* Stream.__init__: the stream is read with a model or without one
StreamInit ==
    /\ stream_pc = "new"
    /\ stream_model' \in {"none", "model"}
    /\ stream_pc' = "call"
    /\ UNCHANGED <<stream_msgs, stream_idx, response, stream_acks, stream_acked,
                   stream_error>>
    /\ UNCHANGED <<sensor_bounds, listenerVars, engineVars>>

\* psub.fetch raises nats.errors.TimeoutError: response is returned as it is
StreamTimeout ==
    /\ stream_pc = "call"
    /\ stream_pc' = "returned"
    /\ UNCHANGED <<stream_model, stream_msgs, stream_idx, response, stream_acks,
                   stream_acked, stream_error>>
    /\ UNCHANGED <<sensor_bounds, listenerVars, engineVars>>

\* psub.fetch returns msgs; if not msgs: return response
StreamFetch ==
    /\ stream_pc = "call"
    /\ \E b \in StreamBatches :
        /\ stream_msgs' = b
        /\ stream_pc' = IF b = <<>> THEN "returned" ELSE "loop"
    /\ UNCHANGED <<stream_model, stream_idx, response, stream_acks, stream_acked,
                   stream_error>>
    /\ UNCHANGED <<sensor_bounds, listenerVars, engineVars>>

\* Whether the for loop reaches response.append for m
Accepted(m, model) == m.kind = "valid" \/ (m.kind = "invalid" /\ model = "none")

\* One iteration of for msg in msgs.  The ack tasks of earlier messages have
\* not run yet when decode raises; they run later or are cancelled with the
\* program.
StreamLoop ==
    /\ stream_pc = "loop"
    /\ stream_idx <= Len(stream_msgs)
    /\ LET m == stream_msgs[stream_idx]
       IN IF m.kind = "undecodable"
          THEN /\ stream_pc' = "raised"
               /\ stream_error' = "UnicodeDecodeError"
               /\ stream_acked' \in {<<>>, stream_acks}
               /\ UNCHANGED <<stream_idx, response, stream_acks>>
          ELSE /\ stream_idx' = stream_idx + 1
               /\ IF Accepted(m, stream_model)
                  THEN /\ response' =
                            Append(response,
                                   IF stream_model = "model"
                                   THEN ModelValidateJson(Decode(m))
                                   ELSE Decode(m))
                       /\ stream_acks' = Append(stream_acks, stream_idx)
                  ELSE UNCHANGED <<response, stream_acks>>
               /\ UNCHANGED <<stream_pc, stream_error, stream_acked>>
    /\ UNCHANGED <<stream_model, stream_msgs>>
    /\ UNCHANGED <<sensor_bounds, listenerVars, engineVars>>

\* await asyncio.gather(*acks) and return response: the acks in failed raise,
\* the others complete, and gather raises if one of them raised
StreamGather ==
    /\ stream_pc = "loop"
    /\ stream_idx > Len(stream_msgs)
    /\ \E failed \in SUBSET {stream_acks[k] : k \in DOMAIN stream_acks} :
        /\ stream_acked' = SelectSeq(stream_acks, LAMBDA k : k \notin failed)
        /\ IF failed = {}
           THEN /\ stream_pc' = "returned"
                /\ UNCHANGED stream_error
           ELSE /\ stream_pc' = "raised"
                /\ stream_error' = "AckError"
    /\ UNCHANGED <<stream_model, stream_msgs, stream_idx, response, stream_acks>>
    /\ UNCHANGED <<sensor_bounds, listenerVars, engineVars>>

----------------------------------------------------------------------------
Next ==
    \/ ConfigMessage
    \/ ConfigTimeout
    \/ EngineWait
    \/ EngineIdle
    \/ EngineFetch
    \/ EngineEval
    \/ EngineUpdateState
    \/ EngineGather

Spec == Init /\ [][Next]_vars

\* The Config Listener alone, each message it handles kept in cfg_msg
NextListener ==
    \/ ConfigMessageObserved
    \/ ConfigTimeout

SpecListener == Init /\ [][NextListener]_vars

\* The two tasks, with the history of the published events kept
NextHistory ==
    \/ ConfigMessage
    \/ ConfigTimeout
    \/ EngineWait
    \/ EngineIdle
    \/ EngineFetch
    \/ EngineEval
    \/ EngineUpdateState
    \/ EngineGatherObserved

SpecHistory == Init /\ [][NextHistory]_vars

\* The two tasks, with the listener's for loop taken one iteration at a time:
\* main runs only while the listener is at an await
NextUpserts ==
    \/ ConfigLoopFirst
    \/ ConfigLoopNext
    \/ ConfigTimeout
    \/ ListenerAwaits(cfg_loop) /\ EngineWait
    \/ ListenerAwaits(cfg_loop) /\ EngineIdle
    \/ ListenerAwaits(cfg_loop) /\ EngineFetch
    \/ ListenerAwaits(cfg_loop) /\ EngineEval
    \/ ListenerAwaits(cfg_loop) /\ EngineUpdateState
    \/ ListenerAwaits(cfg_loop) /\ EngineGather

SpecUpserts == Init /\ [][NextUpserts]_vars

\* One call of Stream.get_messages
NextStream ==
    \/ StreamInit
    \/ StreamTimeout
    \/ StreamFetch
    \/ StreamLoop
    \/ StreamGather

SpecStream == Init /\ [][NextStream]_vars

----------------------------------------------------------------------------
(* Vocabulary of the properties *)

Range(seq) == {seq[k] : k \in DOMAIN seq}

\* Positions of the violation and of the back-to-normal events of a sequence
Violations(events) == {k \in DOMAIN events : events[k].message = OutOfBoundsMessage}
Recoveries(events) == {k \in DOMAIN events : events[k].message = BackToNormalMessage}

\* A step of main (the listener leaves the variables of main alone)
EngineStep == engineVars' # engineVars

\* The step that evaluates the message at idx
EvalStep == epc = "eval" /\ idx <= Len(msgs) /\ EngineStep

\* The step that stores the state after the for loop
UpdateStep == epc = "eval" /\ epc' = "gather"

\* The step that publishes the events of the cycle
GatherStep == epc = "gather" /\ epc' = "fetch"

\* The step of a fetch that times out
IdleStep == last_fetch # "timeout" /\ last_fetch' = "timeout"

----------------------------------------------------------------------------
\* C1: a violation event is published only on the NORMAL->ALERTING
\* transition: a cycle publishes at most one violation event per sensor, and
\* while the stored state is ALERTING the evaluation of a further
\* out-of-bounds reading creates no violation event.
C1_ViolationOnlyOnTransition ==
    [][/\ GatherStep =>
            \A s \in Sensors :
                Cardinality({k \in Violations(published') :
                                published'[k].sensor_data.name = s}) <= 1
       /\ (EvalStep /\ state_file = "ALERTING") =>
            Violations(alert_tasks') = Violations(alert_tasks)]_vars

\* C2: every change of the stored state from ALERTING to NOT_ALERTING comes
\* with exactly one back-to-normal event handed to the publisher in that
\* cycle, whatever the batch held.
C2_RecoveryOnEveryReturnToNormal ==
    [][(state_file = "ALERTING" /\ state_file' = "NOT_ALERTING") =>
            Cardinality(Recoveries(alert_tasks')) = 1]_vars

\* C3: a malformed JSON payload on the sensor stream is acknowledged and does
\* not end the main loop (the stored state stays as it was).
C3_MalformedJsonTolerated ==
    \A k \in DOMAIN msgs :
        (msgs[k].kind = "malformed" /\ (k < idx \/ (k = idx /\ epc = "crashed")))
            => (k \in Range(acks) /\ epc # "crashed")

\* C4: the evaluation of a reading whose sensor has no entry in the bounds
\* table creates no event, does not become the reading a back-to-normal event
\* would carry, and acknowledges the message; so no event handed to the
\* publisher is about a sensor without an entry.
C4_UnknownSensorNoEvent ==
    /\ [][(EvalStep /\ msgs[idx].kind = "reading"
                    /\ msgs[idx].name \notin DOMAIN sensor_bounds) =>
            /\ alert_tasks' = alert_tasks
            /\ last_sensor_data' = last_sensor_data
            /\ acks' = Append(acks, idx)]_vars
    /\ [](\A e \in Range(alert_tasks) \cup Range(published) :
            e.sensor_data.name \in DOMAIN sensor_bounds)

\* C4 witness: a reading of a sensor without an entry has been evaluated and
\* acknowledged, and the cycle is about to publish nothing.
C4_Witness ==
    /\ epc = "gather"
    /\ alert_tasks = <<>>
    /\ \E k \in Range(acks) :
        msgs[k].kind = "reading" /\ msgs[k].name \notin DOMAIN sensor_bounds

\* C5 as stated: a reading with value == min or value == max of the bounds it
\* is evaluated against creates no violation event.
C5_BoundaryInBounds ==
    [][(EvalStep /\ msgs[idx].kind = "reading"
                 /\ msgs[idx].name \in DOMAIN sensor_bounds
                 /\ \/ msgs[idx].value = sensor_bounds[msgs[idx].name].min
                    \/ msgs[idx].value = sensor_bounds[msgs[idx].name].max) =>
            alert_tasks' = alert_tasks]_vars

\* C5 amended: when min <= max, a reading with value == min or value == max
\* creates no violation event; whatever the bounds, the evaluation of a
\* reading creates a violation event exactly when value < min or value > max,
\* and that event carries the reading and the bounds.
C5_BoundaryInBoundsWhenOrdered ==
    [][(EvalStep /\ msgs[idx].kind = "reading"
                 /\ msgs[idx].name \in DOMAIN sensor_bounds) =>
            LET v == msgs[idx].value
                b == sensor_bounds[msgs[idx].name]
            IN /\ (b.min <= b.max /\ (v = b.min \/ v = b.max)) =>
                        alert_tasks' = alert_tasks
               /\ IF v < b.min \/ v > b.max
                  THEN alert_tasks' =
                         Append(alert_tasks,
                                Alert(OutOfBoundsMessage, SensorData(msgs[idx].name, v), b))
                  ELSE alert_tasks' = alert_tasks]_vars

\* C5 witness: a reading on the boundary of ordered bounds has been evaluated
\* and no event was created.
C5_Witness ==
    /\ epc = "eval"
    /\ idx = 2
    /\ alert_tasks = <<>>
    /\ last_sensor_data # <<>>
    /\ last_sensor_data[2].min < last_sensor_data[2].max
    /\ last_sensor_data[1].value = last_sensor_data[2].max

----------------------------------------------------------------------------
(* The Config Listener, under SpecListener *)

\* The step in which the listener handles a message
ListenerStep == cfg_received' # cfg_received

\* Whether config message m lists sensor s
Listed(m, s) == \E k \in DOMAIN m.entries : m.entries[k].sensor = s

\* C6: a config message upserts only the sensors it lists: no entry of the
\* bounds table is ever removed, and an entry whose sensor the message does
\* not list is the same after the message is applied.
C6_UpsertOnlyListed ==
    [][/\ \A s \in DOMAIN sensor_bounds : s \in DOMAIN sensor_bounds'
       /\ ListenerStep =>
            \A s \in DOMAIN sensor_bounds :
                ~Listed(cfg_msg', s) => sensor_bounds'[s] = sensor_bounds[s]]_vars

\* C6 witness: after two config messages, the second listing only A, the
\* table holds B's entry next to A's new bounds.
C6_Witness ==
    /\ cfg_received = 2
    /\ cfg_msg.kind = "object"
    /\ cfg_msg.entries = <<[sensor |-> "A", valid |-> TRUE, min |-> 2, max |-> 1]>>
    /\ DOMAIN sensor_bounds = {"A", "B"}
    /\ sensor_bounds["A"] = SensorBounds("A", 2, 1)
    /\ sensor_bounds["B"] = SensorBounds("B", 1, 2)

\* C7: when an entry of a config message fails validation, every valid entry
\* of the message, those after the invalid one included, is in the bounds
\* table after the message is handled.
C7_OnlyInvalidEntrySkipped ==
    [][(ListenerStep /\ cfg_msg'.kind = "object") =>
            \A k \in DOMAIN cfg_msg'.entries :
                LET e == cfg_msg'.entries[k] IN
                e.valid =>
                    /\ e.sensor \in DOMAIN sensor_bounds'
                    /\ sensor_bounds'[e.sensor] = SensorBounds(e.sensor, e.min, e.max)]_vars

\* C8: the listener has acknowledged every config message it received and is
\* still running.
C8_EveryConfigMessageAcked ==
    /\ cfg_acked = cfg_received
    /\ lpc = "run"

----------------------------------------------------------------------------
\* C9: a fetch of the main loop that times out changes neither the bounds
\* table nor the stored state nor the events of the cycle, publishes nothing,
\* and leaves main at its fetch.
C9_IdleCycleChangesNothing ==
    [][IdleStep =>
            /\ sensor_bounds' = sensor_bounds
            /\ state_file' = state_file
            /\ alert_tasks' = alert_tasks
            /\ last_sensor_data' = last_sensor_data
            /\ published' = <<>>
            /\ epc = "fetch"
            /\ epc' = "fetch"
            /\ error' = "none"]_vars

\* C9 witness: the last fetch timed out, with bounds configured and the
\* stored state ALERTING, and main is at its fetch again.
C9_Witness ==
    /\ last_fetch = "timeout"
    /\ epc = "fetch"
    /\ state_file = "ALERTING"
    /\ DOMAIN sensor_bounds = {"A", "B"}

\* C10: after a cycle whose batch holds only readings that fail schema
\* validation, every message is acknowledged, the stored state is the one
\* from before the cycle, and no event is handed to the publisher.
C10_InvalidReadingsKeepState ==
    [][(UpdateStep /\ \A k \in DOMAIN msgs : msgs[k].kind = "invalid") =>
            /\ Range(acks) = DOMAIN msgs
            /\ state_file # "absent" => state_file' = state_file
            /\ alert_tasks' = <<>>]_vars

----------------------------------------------------------------------------
\* C11: the hysteresis state starts as NORMAL: on a fresh start, with no
\* stored state, the cycle hands no back-to-normal event to the publisher.
C11_FreshStartNoRecovery ==
    [][(UpdateStep /\ state_file = "absent") => Recoveries(alert_tasks') = {}]_vars

\* C12: while the bounds table is empty main is in its wait phase and has
\* fetched nothing; once it has left the wait phase the table is not empty.
C12_NoFetchWhileTableEmpty ==
    DOMAIN sensor_bounds = {} =>
        /\ epc = "wait"
        /\ last_fetch = "none"
        /\ msgs = <<>>
        /\ acks = <<>>

\* C12 witness: main has left the wait phase and evaluated a reading, with
\* one sensor configured.
C12_Witness ==
    /\ epc = "eval"
    /\ idx = 2
    /\ msgs[1].kind = "reading"
    /\ Cardinality(DOMAIN sensor_bounds) = 1

\* C13: every event handed to the publisher or published, violation or
\* back-to-normal, has the subject <alerts-prefix>.<name> of the reading it
\* carries.
C13_SubjectIsPrefixAndSensorName ==
    \A e \in Range(alert_tasks) \cup Range(published) :
        e.subject = <<AlertsPrefix, e.sensor_data.name>>

\* C13 witness: a back-to-normal event of sensor B has been published.
C13_Witness ==
    \E k \in Recoveries(published) :
        /\ published[k].sensor_data.name = "B"
        /\ published[k].subject = <<AlertsPrefix, "B">>

\* C14: once a violation event of a sensor has been created, the next
\* in-bounds reading of that sensor makes the cycle add a back-to-normal
\* event of that sensor and store NOT_ALERTING, also when the two readings
\* are in the same batch.
C14_InBoundsReadingRecovers ==
    [][(/\ UpdateStep
        /\ last_sensor_data # <<>>
        /\ ~OutOfBounds(last_sensor_data[1].value, last_sensor_data[2])
        /\ \E k \in Violations(alert_tasks) :
               alert_tasks[k].sensor_data.name = last_sensor_data[1].name)
       => /\ \E k \in Recoveries(alert_tasks') :
                 alert_tasks'[k].sensor_data.name = last_sensor_data[1].name
          /\ state_file' = "NOT_ALERTING"]_vars

\* C15: a back-to-normal event that is sent while violations are unrecovered
\* names a sensor whose violation event was sent and is not yet recovered.
C15_RecoveryNamesAlertingSensor ==
    [][(GatherStep /\ unrecovered # {})
       => \A k \in Recoveries(alert_tasks) :
              alert_tasks[k].sensor_data.name \in unrecovered]_vars

\* C16: a cycle whose batch holds only readings of sensors that are not in
\* the bounds table leaves the stored state as it was.
C16_UnknownSensorsKeepState ==
    [][(/\ UpdateStep
        /\ state_file # "absent"
        /\ \A k \in DOMAIN msgs :
               /\ msgs[k].kind = "reading"
               /\ msgs[k].name \notin DOMAIN sensor_bounds)
       => state_file' = state_file]_vars

\* C17: in every cycle the publishes are joined before any message of the
\* batch is acknowledged: no message is acknowledged while an event of the
\* cycle is still unpublished.
C17_PublishesJoinedBeforeAck ==
    acks = <<>> \/ alert_tasks = <<>>

\* C18: each message of a batch is acknowledged exactly once, right after
\* its own evaluation and before the next one is evaluated: the messages the
\* loop has handled (the one that ended main included) are the acknowledged
\* ones, once each and in order.
C18_EachMessageAckedOnce ==
    epc \in {"eval", "gather", "crashed"} =>
        acks = [k \in 1..(IF epc = "crashed" THEN idx ELSE idx - 1) |-> k]

\* C19: every event created in a cycle is published before the next fetch,
\* also when a later message of the batch fails: main never ends with a
\* created event left unpublished.  (The message that ended main is not a
\* reading here, so an event left is one of an earlier, acknowledged message.)
C19_NoEventDropped ==
    (epc = "crashed" /\ msgs[idx].kind # "reading") => alert_tasks = <<>>

\* The bounds the readings of the cycle were compared with
BoundsUsed ==
    {alert_tasks[k].sensor_bounds : k \in DOMAIN alert_tasks}
    \cup (IF last_sensor_data = <<>> THEN {} ELSE {last_sensor_data[2]})

\* C20: all readings of a cycle are evaluated against the same snapshot of
\* the bounds table: two readings of one sensor in a batch are compared with
\* the same bounds.
C20_OneSnapshotPerCycle ==
    \A b1, b2 \in BoundsUsed : b1.sensor = b2.sensor => b1 = b2

\* C21: a failure of msg.ack() does not block progress: main is never ended
\* by it, so the rest of the batch is evaluated and further batches are
\* fetched.
C21_AckFailureDoesNotBlock ==
    ~(epc = "crashed" /\ error = "AckError")

\* C22: the cycle stores ALERTING if and only if it created a violation
\* event; the state file is written by that step alone, once all messages of
\* the batch are acknowledged and before the events of the cycle are sent.
C22_FlagIffViolationCreated ==
    /\ [][UpdateStep =>
            /\ state_file' \in {"ALERTING", "NOT_ALERTING"}
            /\ (state_file' = "ALERTING") <=> (Violations(alert_tasks') # {})
            /\ acks = [k \in DOMAIN msgs |-> k]
            /\ published' = <<>>]_vars
    /\ [][state_file' # state_file => UpdateStep]_vars
    /\ [][GatherStep => (state_file' = state_file /\ published' = alert_tasks)]_vars

\* C22 witness: a cycle of two acknowledged messages has created a violation
\* event and stored ALERTING; its events are not sent yet.
C22_Witness ==
    /\ epc = "gather"
    /\ state_file = "ALERTING"
    /\ acks = <<1, 2>>
    /\ Violations(alert_tasks) # {}
    /\ published = <<>>

\* C23: every violation event, created or published, carries a value below
\* the min or above the max of the bounds it carries, and every back-to-normal
\* event carries a value from min to max of the bounds it carries, however
\* the listener's updates interleave with the evaluation.
C23_EventsAgreeWithCarriedBounds ==
    \A e \in Range(alert_tasks) \cup Range(published) :
        LET v == e.sensor_data.value
            b == e.sensor_bounds
        IN /\ e.message = OutOfBoundsMessage => (v < b.min \/ v > b.max)
           /\ e.message = BackToNormalMessage => (b.min <= v /\ v <= b.max)

\* C23 witness: a back-to-normal event is published whose sensor's entry in
\* the table was replaced after the reading was evaluated.
C23_Witness ==
    \E k \in Recoveries(published) :
        LET e == published[k]
        IN /\ e.sensor_data.name \in DOMAIN sensor_bounds
           /\ sensor_bounds[e.sensor_data.name] # e.sensor_bounds

\* The listener has written some of the entries it will apply from the
\* current config message and will write another one
PartlyApplied == cfg_loop # <<>> /\ cfg_loop[1].valid

\* C24: the entries of one config message are written without main running
\* in between: main evaluates no reading while the listener has written some
\* but not all of the entries it applies from a message.
C24_UpsertsNotInterleaved ==
    [][(EvalStep /\ msgs[idx].kind = "reading") => ~PartlyApplied]_vars

\* C24 witness: the listener has written the first of two entries of a
\* message while main, between two readings of a batch, waits for the ack of
\* the first.
C24_Witness ==
    /\ PartlyApplied
    /\ epc = "eval"
    /\ idx = 2
    /\ Len(msgs) = 2
    /\ msgs[1].kind = "reading"
    /\ msgs[2].kind = "reading"

\* What the caller of get_messages gets once the call has ended
Delivered == IF stream_pc = "returned" THEN response ELSE <<>>

\* The positions of the fetched messages that pass the validation
PassingPositions ==
    SelectSeq([k \in DOMAIN stream_msgs |-> k],
              LAMBDA k : /\ stream_msgs[k].kind # "undecodable"
                         /\ stream_model = "model" => stream_msgs[k].kind = "valid")

\* C25: once a call of get_messages has ended, the caller has got the fetched
\* messages that pass the validation, in the order of delivery, and exactly
\* these were acknowledged; a fetch that timed out has ended without an error.
C25_ReturnsAndAcksValidated ==
    stream_pc \in {"returned", "raised"} =>
        /\ Len(Delivered) = Len(PassingPositions)
        /\ \A k \in DOMAIN Delivered :
               Delivered[k][2] = stream_msgs[PassingPositions[k]].data
        /\ stream_acked = PassingPositions
        /\ stream_msgs = <<>> => stream_pc = "returned"

====
